---- MODULE Spec2Model ----
(***************************************************************************)
(* State-machine model of app/services/nginx_service.py (NginxService).    *)
(*                                                                         *)
(* The durable state is the host's file system and the nginx daemon; every *)
(* shell command goes through run_command, which raises when the command   *)
(* exits non-zero.  The outcome of a command is an input of the            *)
(* environment: any command may fail, and a command that names a path      *)
(* which does not exist cannot succeed.  Calls of os.* are deterministic   *)
(* functions of the file system.  One top-level operation runs at a time   *)
(* (callers serialise), each as a sequence of steps following the source.  *)
(***************************************************************************)
EXTENDS Integers, Sequences, FiniteSets, TLC

\* Number of top-level operations invoked in one behaviour.
MaxCalls == 2

\* delete_site: max_retries = 3
max_retries == 3

\* The domain the operations are called for; b.com is a site managed
\* elsewhere, which only the hand-written global config mentions.
Domains == {"a.com"}
Variants == {"v1", "v2"}
\* NginxSite: the domain plus the fields only the renderer reads.
NginxSite == [domain : Domains, variant : Variants]

(***************************************************************************)
(* Paths.  A path is <<directory, name>>.                                  *)
(***************************************************************************)
get_nginx_config_path(d) == <<"/etc/nginx/sites-available", d>>
get_nginx_enabled_path(d) == <<"/etc/nginx/sites-enabled", d>>
get_site_root_path(d) == <<"/var/www", d>>

paths_to_delete(d) ==
  << <<"/etc/nginx/sites-available", d>>,
     <<"/etc/nginx/sites-enabled", d>>,
     <<"/var/www", d>>,
     <<"/var/log/nginx/access.log", d>>,
     <<"/var/log/nginx/error.log", d>>,
     <<"/etc/letsencrypt/live", d>>,
     <<"/etc/letsencrypt/archive", d>>,
     <<"/etc/letsencrypt/renewal", d>> >>

dirs ==
  << <<"/etc/nginx", "sites-available">>,
     <<"/etc/nginx", "sites-enabled">>,
     <<"/var", "www">>,
     <<"/var/log", "nginx">>,
     <<"/etc/nginx", "conf.d">> >>

cache_dirs ==
  << <<"/var/cache", "nginx">>,
     <<"/var/tmp", "nginx">>,
     <<"/run", "nginx">> >>

log_dir == <<"/var/log", "nginx">>
nginx_conf == <<"/etc/nginx", "nginx.conf">>
nginx_conf_bak == <<"/etc/nginx", "nginx.conf.bak">>
default_site == <<"/etc/nginx/sites-enabled", "default">>
default_conf_path == <<"/etc/nginx/conf.d", "default.conf">>
\* The target of the command of line 182, whose string is not an f-string:
\* the literal name, relative to the working directory.
literal_default_conf_path == <<".", "{default_conf_path}">>
redhat_release == <<"/etc", "redhat-release">>
NoPath == <<"-", "-">>

Range(s) == {s[n] : n \in 1..Len(s)}

Paths ==
  UNION {Range(paths_to_delete(d)) : d \in Domains}
    \cup Range(dirs) \cup Range(cache_dirs)
    \cup {nginx_conf, nginx_conf_bak, default_site, default_conf_path,
          literal_default_conf_path, redhat_release}

(***************************************************************************)
(* File-system entries.  A file's content is a sequence of lines; a line   *)
(* is <<directive, argument>> and mentions the domain d iff its argument   *)
(* is d.                                                                   *)
(***************************************************************************)
Absent == [kind |-> "absent", content |-> <<>>, target |-> NoPath]
File(c) == [kind |-> "file", content |-> c, target |-> NoPath]
Dir(c) == [kind |-> "dir", content |-> c, target |-> NoPath]
Link(t) == [kind |-> "link", content |-> <<>>, target |-> t]

\* os.path.exists follows a symlink: a dangling link does not "exist".
os_path_exists(f, p) ==
  IF f[p].kind = "link"
    THEN f[p].target \in DOMAIN f /\ f[f[p].target].kind \in {"file", "dir"}
    ELSE f[p].kind # "absent"

\* os.path.isdir follows a symlink too.
os_path_isdir(f, p) ==
  IF f[p].kind = "link"
    THEN f[p].target \in DOMAIN f /\ f[f[p].target].kind = "dir"
    ELSE f[p].kind = "dir"

\* os.remove unlinks a file or a symlink; it raises on a directory and on
\* a missing entry.
os_remove_raises(f, p) == f[p].kind \in {"absent", "dir"}
os_remove(f, p) == [f EXCEPT ![p] = Absent]

\* os.makedirs(p, exist_ok=True); it raises when p is a regular file.
os_makedirs_raises(f, p) == f[p].kind # "absent" /\ ~os_path_isdir(f, p)
os_makedirs(f, p) == IF f[p].kind = "absent" THEN [f EXCEPT ![p] = Dir(<<>>)] ELSE f

\* Mutant: the arguments of os.symlink swapped.
os_symlink_swapped(f, src, dst) == [f EXCEPT ![src] = Link(dst)]

\* os.symlink(src, dst) raises FileExistsError when any entry, a dangling
\* link included, is at dst.
os_symlink_raises(f, dst) == f[dst].kind # "absent"
os_symlink(f, src, dst) == [f EXCEPT ![dst] = Link(src)]

\* open(p, 'w') + write: writes through a symlink.
write_file(f, p, c) ==
  IF f[p].kind = "link" /\ f[p].target \in DOMAIN f
    THEN [f EXCEPT ![f[p].target] = File(c)]
    ELSE [f EXCEPT ![p] = File(c)]

(***************************************************************************)
(* run_command.  A command is [cmd, target]; the log keeps every command   *)
(* run in the current call with its outcome and (for probes) its output.   *)
(***************************************************************************)
Cmd(c, t) == [cmd |-> c, target |-> t]
Ran(c, ok, out) == [cmd |-> c.cmd, target |-> c.target, ok |-> ok, out |-> out]

NeedsPath == {"chown", "chown -R", "chmod 644", "chmod -R 755", "cp", "sed -i", "mv"}
CanSucceed(f, c) == c.cmd \in NeedsPath => os_path_exists(f, c.target)

\* A block of commands run in sequence: k is the number of leading commands
\* that succeed; if k < Len(cmds), command k+1 fails and raises.
Outcomes(f, cmds) ==
  {k \in 0..Len(cmds) : \A n \in 1..k : CanSucceed(f, cmds[n])}
Trace(cmds, k) ==
  [n \in 1..(IF k < Len(cmds) THEN k + 1 ELSE k) |-> Ran(cmds[n], n <= k, "")]

NoError == [kind |-> "none", cmd |-> Cmd("-", NoPath)]
ProcessExecutionError(c) == [kind |-> "ProcessExecutionError", cmd |-> c]
PythonError(k) == [kind |-> k, cmd |-> Cmd("-", NoPath)]

(***************************************************************************)
(* Rendered texts.                                                         *)
(***************************************************************************)
\* generate_nginx_config(site): the server block of the site.
generate_nginx_config(site) ==
  << <<"server_name", site.domain>>, <<"root", site.domain>>,
     <<"variant", site.variant>> >>

main_config(nginx_user) ==
  << <<"user", nginx_user>>, <<"include", "/etc/nginx/conf.d/*.conf">>,
     <<"include", "/etc/nginx/sites-enabled/*">> >>

default_conf == << <<"server_name", "_">>, <<"return", "444">> >>

\* sed -i '/{domain}/d': drop every line that mentions the domain.
Mentions(line, d) == line[2] = d
sed_delete(content, d) == SelectSeq(content, LAMBDA line : ~Mentions(line, d))

VARIABLES
  fs,           \* Paths -> entry
  daemon,       \* TRUE iff the nginx daemon is running
  pc,           \* position of the running operation, "idle" between calls
  op,           \* the current (or last) call: [name, site]
  log,          \* commands run in the current call
  err,          \* exception in flight / caught by the operation's handler
  errAt,        \* Len(log) when err was raised
  raised,       \* exception propagated to the caller
  result,       \* "none" | "success" | "raised"
  calls,        \* number of calls made
  nginx_user,   \* _init_nginx_config: nginx_user
  i,            \* loop position (dirs, paths_to_delete, cache_dirs)
  retry_count,  \* delete_site: retry_count
  verified,     \* create_site: results of verify_site_access in this call
  pre_strip,    \* delete_site: nginx.conf content just before cp/sed
  user_log,     \* commands run by _ensure_nginx_user, kept up to the next
                \* step of _init_nginx_config
  fs0,          \* file system when the current call started
  prev          \* the call before the current one: [name, site, result]

vars == <<fs, daemon, pc, op, log, err, errAt, raised, result, calls,
          nginx_user, i, retry_count, verified, pre_strip, user_log, fs0, prev>>


(***************************************************************************)
(* Service user (lines 33-85).  ps is the output of the process-list       *)
(* pipeline ("fail" when it raises, "" when no nginx process runs);        *)
(* idSys, idUser, addOk are the outcomes of `id`, `id {user}`, `useradd`.  *)
(***************************************************************************)
PsOutputs == {"fail", "", "root"}
UserGroup(u) ==
  CASE u = "root" -> "root:root"
    [] u = "nginx" -> "nginx:nginx"
    [] u = "www-data" -> "www-data:www-data"
    [] OTHER -> "nobody:nobody"
\* nginx_user.split(':')[0]
UserName(nu) ==
  CASE nu = "root:root" -> "root"
    [] nu = "nginx:nginx" -> "nginx"
    [] nu = "www-data:www-data" -> "www-data"
    [] OTHER -> "nobody"

ps_cmd == Cmd("ps aux | grep nginx", NoPath)
id_cmd(u) == Cmd("id", <<"user", u>>)
useradd_cmd(u) == Cmd("useradd -r -s", <<"user", u>>)

\* Result: [user, log].
get_system_nginx_user(f, ps, idSys) ==
  LET family == IF os_path_exists(f, redhat_release) THEN "nginx" ELSE "www-data"
  IN  IF ps = "fail"
        THEN [user |-> "nobody:nobody", log |-> <<Ran(ps_cmd, FALSE, "")>>]
      ELSE IF ps # ""
        THEN [user |-> UserGroup(ps), log |-> <<Ran(ps_cmd, TRUE, ps)>>]
      ELSE [user |-> IF idSys THEN UserGroup(family) ELSE "nobody:nobody",
            log |-> <<Ran(ps_cmd, TRUE, ""), Ran(id_cmd(family), idSys, "")>>]

\* Mutant: the resolved user is kept when `useradd` fails.
ensure_nginx_user_keeps_user(f, ps, idSys, idUser, addOk) ==
  LET g == get_system_nginx_user(f, ps, idSys)
      user == UserName(g.user)
  IN  IF user = "nobody" THEN g
      ELSE IF idUser
        THEN [user |-> g.user, log |-> Append(g.log, Ran(id_cmd(user), TRUE, ""))]
      ELSE [user |-> g.user,
            log |-> g.log \o <<Ran(id_cmd(user), FALSE, ""),
                               Ran(useradd_cmd(user), addOk, "")>>]

\* _ensure_nginx_user (lines 63-85): a failed `id {user}` is answered by
\* `useradd`; a failed `useradd` is caught at line 83.
ensure_nginx_user(f, ps, idSys, idUser, addOk) ==
  LET g == get_system_nginx_user(f, ps, idSys)
      user == UserName(g.user)
  IN  IF user = "nobody" THEN g
      ELSE IF idUser
        THEN [user |-> g.user, log |-> Append(g.log, Ran(id_cmd(user), TRUE, ""))]
      ELSE [user |-> IF addOk THEN g.user ELSE "nobody:nobody",
            log |-> g.log \o <<Ran(id_cmd(user), FALSE, ""),
                               Ran(useradd_cmd(user), addOk, "")>>]

(***************************************************************************)
(* Exceptions: Throw records the exception and moves to the handler of     *)
(* the running operation (the log of the step is already extended).        *)
(***************************************************************************)
Throw(e, handler) ==
  /\ err' = e
  /\ errAt' = Len(log')
  /\ pc' = handler

\* A block of commands: extend the log; raise at the first failure, else
\* continue at `next`.
RunBlock(cmds, k, next, handler) ==
  /\ log' = log \o Trace(cmds, k)
  /\ IF k < Len(cmds)
       THEN Throw(ProcessExecutionError(cmds[k + 1]), handler)
       ELSE pc' = next /\ UNCHANGED <<err, errAt>>

(***************************************************************************)
(* _init_nginx_config (lines 87-188); its handler logs and re-raises into  *)
(* create_site's handler.                                                  *)
(***************************************************************************)
InitUser ==
  /\ pc = "i_user"
  /\ \E ps \in PsOutputs, idSys \in BOOLEAN, idUser \in BOOLEAN, addOk \in BOOLEAN :
       LET r == ensure_nginx_user(fs, ps, idSys, idUser, addOk)
       IN  /\ nginx_user' = r.user
           /\ user_log' = r.log
  /\ pc' = "i_dirs"
  /\ i' = 1
  /\ UNCHANGED <<fs, daemon, op, log, err, errAt, raised, result, calls,
                 retry_count, verified, pre_strip, fs0, prev>>

\* for dir_path in dirs: makedirs, chown -R, chmod -R 755
InitDirs ==
  /\ pc = "i_dirs"
  /\ LET dir_path == dirs[i]
         cmds == <<Cmd("chown -R", dir_path), Cmd("chmod -R 755", dir_path)>>
     IN  IF os_makedirs_raises(fs, dir_path)
           THEN /\ log' = log
                /\ Throw(PythonError("FileExistsError"), "c_except")
                /\ UNCHANGED <<fs, i>>
           ELSE /\ fs' = os_makedirs(fs, dir_path)
                /\ \E k \in Outcomes(fs', cmds) :
                     RunBlock(cmds, k, IF i < Len(dirs) THEN "i_dirs" ELSE "i_main",
                              "c_except")
                /\ i' = IF pc' = "i_dirs" THEN i + 1 ELSE 0
  /\ user_log' = <<>>
  /\ UNCHANGED <<daemon, op, raised, result, calls, nginx_user,
                 retry_count, verified, pre_strip, fs0, prev>>

\* write /etc/nginx/nginx.conf, chown, chmod 644
InitMain ==
  /\ pc = "i_main"
  /\ LET cmds == <<Cmd("chown", nginx_conf), Cmd("chmod 644", nginx_conf)>>
     IN  /\ fs' = write_file(fs, nginx_conf, main_config(nginx_user))
         /\ \E k \in Outcomes(fs', cmds) : RunBlock(cmds, k, "i_default", "c_except")
  /\ UNCHANGED <<daemon, op, raised, result, calls, nginx_user, i,
                 retry_count, verified, pre_strip, user_log, fs0, prev>>

\* The commands of lines 181-182.
default_conf_cmds ==
  <<Cmd("chown", default_conf_path), Cmd("chmod 644", literal_default_conf_path)>>

\* remove the default site, write conf.d/default.conf, chown, chmod
InitDefault ==
  /\ pc = "i_default"
  /\ LET f1 == IF os_path_exists(fs, default_site) THEN os_remove(fs, default_site) ELSE fs
     IN  IF os_path_exists(fs, default_site) /\ os_remove_raises(fs, default_site)
           THEN /\ log' = log
                /\ Throw(PythonError("IsADirectoryError"), "c_except")
                /\ fs' = fs
           ELSE /\ fs' = write_file(f1, default_conf_path, default_conf)
                /\ \E k \in Outcomes(fs', default_conf_cmds) :
                     RunBlock(default_conf_cmds, k, "c_dirs", "c_except")
  /\ UNCHANGED <<daemon, op, raised, result, calls, nginx_user, i,
                 retry_count, verified, pre_strip, user_log, fs0, prev>>


(***************************************************************************)
(* verify_site_access (lines 190-208).  head is the output of the header   *)
(* probe, body that of the page fetch ("fail" when the command raises).    *)
(* Result: [ok, log]; it never raises.                                     *)
(***************************************************************************)
HeadOutputs == {"200 OK", "other", "fail"}
BodyOutputs == {"marker", "other", "fail"}
head_cmd(d) == Cmd("curl -s -I", <<"http", d>>)
body_cmd(d) == Cmd("curl -s", <<"http", d>>)

\* Mutant: the body is fetched but the marker is not required.
verify_ignores_marker(d, head, body) ==
  IF head = "200 OK"
    THEN [ok |-> body # "fail",
          log |-> <<Ran(head_cmd(d), TRUE, head), Ran(body_cmd(d), body # "fail", body)>>]
    ELSE [ok |-> FALSE, log |-> <<Ran(head_cmd(d), head # "fail", head)>>]

verify_site_access(d, head, body) ==
  IF head = "200 OK"
    THEN [ok |-> body = "marker",
          log |-> <<Ran(head_cmd(d), TRUE, head), Ran(body_cmd(d), body # "fail", body)>>]
    ELSE [ok |-> FALSE, log |-> <<Ran(head_cmd(d), head # "fail", head)>>]

(***************************************************************************)
(* create_site (lines 210-297)                                             *)
(***************************************************************************)
domain == op.site.domain
config_path == get_nginx_config_path(domain)
enabled_path == get_nginx_enabled_path(domain)
site_root == get_site_root_path(domain)

nginx_t == Cmd("nginx -t", NoPath)
systemctl(verb) == Cmd("systemctl", <<"nginx", verb>>)
sleep == Cmd("sleep", NoPath)
nginx_reload == Cmd("nginx -s reload", NoPath)

\* lines 216-234: site root and log directory.  create_nginx_directories()
\* and get_nginx_user() (app.utils.nginx) touch none of the entries kept
\* here once _init_nginx_config has made the base directories; the user
\* they resolve only names the owner given to chown.
CreateDirs ==
  /\ pc = "c_dirs"
  /\ LET cmds == <<Cmd("chown -R", site_root), Cmd("chmod -R 755", site_root),
                   Cmd("chown -R", log_dir)>>
         f1 == os_makedirs(fs, site_root)
         f2 == IF os_path_exists(f1, log_dir) THEN f1 ELSE os_makedirs(f1, log_dir)
     IN  IF os_makedirs_raises(fs, site_root)
           THEN /\ log' = log
                /\ Throw(PythonError("FileExistsError"), "c_except")
                /\ fs' = fs
           ELSE /\ fs' = f2
                /\ \E k \in Outcomes(fs', cmds) : RunBlock(cmds, k, "c_write", "c_except")
  /\ UNCHANGED <<daemon, op, raised, result, calls, nginx_user, i,
                 retry_count, verified, pre_strip, user_log, fs0, prev>>

\* lines 236-250: render and write the available config
CreateWrite ==
  /\ pc = "c_write"
  /\ LET config_content == generate_nginx_config(op.site)
         cmds == <<Cmd("chown", config_path), Cmd("chmod 644", config_path)>>
     IN  /\ fs' = write_file(fs, config_path, config_content)
         /\ \E k \in Outcomes(fs', cmds) : RunBlock(cmds, k, "c_link", "c_except")
  /\ UNCHANGED <<daemon, op, raised, result, calls, nginx_user, i,
                 retry_count, verified, pre_strip, user_log, fs0, prev>>

\* Mutant: the existing entry is left in place.
unlink_enabled_never(f, e) == f

\* lines 257-258: if os.path.exists(enabled_path): os.remove(enabled_path)
unlink_enabled(f, e) == IF os_path_exists(f, e) THEN os_remove(f, e) ELSE f

\* lines 252-259: relink the enabled path
CreateLink ==
  /\ pc = "c_link"
  /\ log' = log
  /\ LET f1 == unlink_enabled(fs, enabled_path)
     IN  IF os_path_exists(fs, enabled_path) /\ os_remove_raises(fs, enabled_path)
           THEN /\ Throw(PythonError("IsADirectoryError"), "c_except")
                /\ fs' = fs
         ELSE IF os_symlink_raises(f1, enabled_path)
           THEN /\ Throw(PythonError("FileExistsError"), "c_except")
                /\ fs' = f1
         ELSE /\ fs' = os_symlink(f1, config_path, enabled_path)
              /\ pc' = "c_test"
              /\ UNCHANGED <<err, errAt>>
  /\ UNCHANGED <<daemon, op, raised, result, calls, nginx_user, i,
                 retry_count, verified, pre_strip, user_log, fs0, prev>>

\* lines 267-270: the rollback of a failed syntax check
rollback(f, c, e) ==
  LET f1 == IF os_path_exists(f, c) THEN os_remove(f, c) ELSE f
  IN  IF os_path_exists(f1, e) THEN os_remove(f1, e) ELSE f1

\* lines 261-271: syntax check, rollback on failure
CreateTest ==
  /\ pc = "c_test"
  /\ \E ok \in BOOLEAN :
       /\ log' = Append(log, Ran(nginx_t, ok, ""))
       /\ IF ok
            THEN /\ pc' = "c_restart"
                 /\ UNCHANGED <<fs, err, errAt>>
            ELSE /\ fs' = rollback(fs, config_path, enabled_path)
                 /\ Throw(ProcessExecutionError(nginx_t), "c_except")
  /\ UNCHANGED <<daemon, op, raised, result, calls, nginx_user, i,
                 retry_count, verified, pre_strip, user_log, fs0, prev>>

\* Mutant: the restart is issued before the syntax check.
restart_cmds_unchecked == <<systemctl("restart"), nginx_t>>

\* restart_nginx (lines 21-31): the commands, in order
restart_cmds == <<nginx_t, systemctl("restart")>>

\* restart_nginx, called by create_site (line 274) or on its own
RestartNginx ==
  /\ pc \in {"c_restart", "r_restart"}
  /\ \E k \in Outcomes(fs, restart_cmds) :
       /\ RunBlock(restart_cmds, k,
                   IF pc = "c_restart" THEN "c_sleep" ELSE "r_return",
                   IF pc = "c_restart" THEN "c_except" ELSE "r_except")
       /\ daemon' = IF k = Len(restart_cmds) THEN TRUE ELSE daemon
  /\ UNCHANGED <<fs, op, raised, result, calls, nginx_user, i,
                 retry_count, verified, pre_strip, user_log, fs0, prev>>

\* lines 276-277
CreateSleep ==
  /\ pc = "c_sleep"
  /\ \E k \in Outcomes(fs, <<sleep>>) : RunBlock(<<sleep>>, k, "c_verify", "c_except")
  /\ UNCHANGED <<fs, daemon, op, raised, result, calls, nginx_user, i,
                 retry_count, verified, pre_strip, user_log, fs0, prev>>

\* lines 283-284
reload_cmds == <<nginx_reload, sleep>>

\* Mutant: one retry too many.
after_verify_retrying(ok, n) ==
  IF ok THEN "c_return" ELSE IF n <= 1 THEN "c_reload" ELSE "raise"

\* lines 280-288: what follows a verification, n verifications having failed
\* before it: return, reload and verify once more, or raise.
after_verify(ok, n) ==
  IF ok THEN "c_return" ELSE IF n = 0 THEN "c_reload" ELSE "raise"

\* line 280 (first verification) and line 287 (second verification)
CreateVerify ==
  /\ pc = "c_verify"
  /\ \E head \in HeadOutputs, body \in BodyOutputs :
       LET r == verify_site_access(domain, head, body)
       IN  /\ log' = log \o r.log
           /\ verified' = Append(verified, r.ok)
           /\ IF after_verify(r.ok, Len(verified)) = "raise"
                THEN Throw(PythonError("Exception: site not reachable"), "c_except")
                ELSE pc' = after_verify(r.ok, Len(verified)) /\ UNCHANGED <<err, errAt>>
  /\ UNCHANGED <<fs, daemon, op, raised, result, calls, nginx_user, i,
                 retry_count, pre_strip, user_log, fs0, prev>>

\* lines 281-284: reload and wait
CreateReload ==
  /\ pc = "c_reload"
  /\ \E k \in Outcomes(fs, reload_cmds) : RunBlock(reload_cmds, k, "c_verify", "c_except")
  /\ UNCHANGED <<fs, daemon, op, raised, result, calls, nginx_user, i,
                 retry_count, verified, pre_strip, user_log, fs0, prev>>

\* lines 290-293
CreateReturn ==
  /\ pc = "c_return"
  /\ result' = "success"
  /\ pc' = "idle"
  /\ UNCHANGED <<fs, daemon, op, log, err, errAt, raised, calls, nginx_user, i,
                 retry_count, verified, pre_strip, user_log, fs0, prev>>

\* Mutant: the handler undoes the installation as the rollback of a failed
\* syntax check does.
on_create_error_rolls_back(f, c, e) == rollback(f, c, e)

\* lines 295-297: the handler logs and re-raises; it touches no file.
on_create_error(f, c, e) == f

\* lines 295-297: log and re-raise
CreateExcept ==
  /\ pc = "c_except"
  /\ fs' = on_create_error(fs, config_path, enabled_path)
  /\ raised' = err
  /\ result' = "raised"
  /\ pc' = "idle"
  /\ UNCHANGED <<daemon, op, log, err, errAt, calls, nginx_user, i,
                 retry_count, verified, pre_strip, user_log, fs0, prev>>


(***************************************************************************)
(* delete_site (lines 299-412)                                             *)
(***************************************************************************)
\* Mutant: a failed stop is ignored.
stop_never_raises(k) == FALSE

\* line 303 sits directly in the outer try: a failed stop (k = 0 of the one
\* command succeeded) raises into the handler of line 405.
stop_raises(k) == k = 0

\* lines 302-304
DeleteStop ==
  /\ pc = "d_stop"
  /\ \E k \in Outcomes(fs, <<systemctl("stop")>>) :
       /\ log' = log \o Trace(<<systemctl("stop")>>, k)
       /\ IF stop_raises(k)
            THEN Throw(ProcessExecutionError(systemctl("stop")), "d_except")
            ELSE pc' = "d_paths" /\ UNCHANGED <<err, errAt>>
       /\ daemon' = IF k = 1 THEN FALSE ELSE daemon
  /\ i' = 1
  /\ UNCHANGED <<fs, op, raised, result, calls, nginx_user,
                 retry_count, verified, pre_strip, user_log, fs0, prev>>

\* Mutant: no existence test before a deletion.
path_always_present(f, p) == TRUE

\* line 323: the test that guards each deletion
path_present(f, p) == os_path_exists(f, p)

\* lines 322-328: one iteration of `for path in paths_to_delete`
DeletePath ==
  /\ pc = "d_paths"
  /\ LET path == paths_to_delete(domain)[i]
         next == IF i < Len(paths_to_delete(domain)) THEN "d_paths" ELSE "d_cache"
         rm == Cmd("rm -rf", path)
     IN  IF ~path_present(fs, path)
           THEN /\ log' = log
                /\ pc' = next
                /\ UNCHANGED <<fs, err, errAt>>
         ELSE IF os_path_isdir(fs, path)
           THEN \E k \in Outcomes(fs, <<rm>>) :
                  /\ RunBlock(<<rm>>, k, next, "d_except")
                  /\ fs' = IF k = 1 THEN [fs EXCEPT ![path] = Absent] ELSE fs
         ELSE IF os_remove_raises(fs, path)
           THEN /\ log' = log
                /\ Throw(PythonError("FileNotFoundError"), "d_except")
                /\ fs' = fs
         ELSE /\ log' = log
              /\ fs' = os_remove(fs, path)
              /\ pc' = next
              /\ UNCHANGED <<err, errAt>>
  /\ i' = IF pc' = "d_paths" THEN i + 1 ELSE 1
  /\ UNCHANGED <<daemon, op, raised, result, calls, nginx_user,
                 retry_count, verified, pre_strip, user_log, fs0, prev>>

\* lines 337-342: one iteration of the cache purge
DeleteCache ==
  /\ pc = "d_cache"
  /\ LET cache_dir == cache_dirs[i]
         next == IF i < Len(cache_dirs) THEN "d_cache" ELSE "d_perms"
         rm == Cmd("rm -rf /*", cache_dir)
     IN  IF ~os_path_exists(fs, cache_dir)
           THEN /\ log' = log
                /\ pc' = next
                /\ UNCHANGED <<fs, err, errAt>>
           ELSE \E k \in Outcomes(fs, <<rm>>) :
                  /\ RunBlock(<<rm>>, k, next, "d_except")
                  /\ fs' = IF k = 1 THEN [fs EXCEPT ![cache_dir] = Dir(<<>>)] ELSE fs
  /\ i' = IF pc' = "d_cache" THEN i + 1 ELSE 0
  /\ UNCHANGED <<daemon, op, raised, result, calls, nginx_user,
                 retry_count, verified, pre_strip, user_log, fs0, prev>>

RECURSIVE perm_cmds(_, _)
\* lines 346-349: chown -R and chmod -R 755 for each cache directory present
perm_cmds(f, n) ==
  IF n > Len(cache_dirs) THEN <<>>
  ELSE (IF os_path_exists(f, cache_dirs[n])
          THEN <<Cmd("chown -R", cache_dirs[n]), Cmd("chmod -R 755", cache_dirs[n])>>
          ELSE <<>>) \o perm_cmds(f, n + 1)

\* lines 344-349
DeletePerms ==
  /\ pc = "d_perms"
  /\ \E k \in Outcomes(fs, perm_cmds(fs, 1)) :
       RunBlock(perm_cmds(fs, 1), k, "d_strip", "d_except")
  /\ UNCHANGED <<fs, daemon, op, raised, result, calls, nginx_user, i,
                 retry_count, verified, pre_strip, user_log, fs0, prev>>

strip_cmds == <<Cmd("cp", nginx_conf), Cmd("sed -i", nginx_conf)>>

\* cp {nginx_conf} {nginx_conf}.bak
cp_backup(f) == [f EXCEPT ![nginx_conf_bak] = File(f[nginx_conf].content)]
\* sed -i '/{domain}/d' {nginx_conf}
sed_strip(f, d) == [f EXCEPT ![nginx_conf] = File(sed_delete(f[nginx_conf].content, d))]
\* Mutant: the backup is dropped without being put back.
mv_restore_drops_backup(f) == [f EXCEPT ![nginx_conf_bak] = Absent]

\* mv {nginx_conf}.bak {nginx_conf}
mv_restore(f) ==
  [f EXCEPT ![nginx_conf] = File(f[nginx_conf_bak].content), ![nginx_conf_bak] = Absent]

\* lines 351-357: back up and strip the global config
DeleteStrip ==
  /\ pc = "d_strip"
  /\ pre_strip' = fs[nginx_conf]
  /\ IF os_path_exists(fs, nginx_conf)
       THEN \E k \in Outcomes(fs, strip_cmds) :
              /\ RunBlock(strip_cmds, k, "d_test", "d_except")
              /\ fs' = IF k = 0 THEN fs
                       ELSE IF k = 1 THEN cp_backup(fs)
                       ELSE sed_strip(cp_backup(fs), domain)
       ELSE /\ log' = log
            /\ pc' = "d_test"
            /\ UNCHANGED <<fs, err, errAt>>
  /\ UNCHANGED <<daemon, op, raised, result, calls, nginx_user, i,
                 retry_count, verified, user_log, fs0, prev>>

mv_cmd == Cmd("mv", nginx_conf_bak)

\* lines 359-367: syntax check; on failure put the backup back and raise
DeleteTest ==
  /\ pc = "d_test"
  /\ \E ok \in BOOLEAN :
       IF ok
         THEN /\ log' = Append(log, Ran(nginx_t, TRUE, ""))
              /\ pc' = "d_restart"
              /\ UNCHANGED <<fs, err, errAt>>
       ELSE IF os_path_exists(fs, nginx_conf_bak)
         THEN \E mvOk \in BOOLEAN :
                /\ log' = log \o <<Ran(nginx_t, FALSE, ""), Ran(mv_cmd, mvOk, "")>>
                /\ fs' = IF mvOk THEN mv_restore(fs) ELSE fs
                /\ Throw(ProcessExecutionError(IF mvOk THEN nginx_t ELSE mv_cmd), "d_except")
       ELSE /\ log' = Append(log, Ran(nginx_t, FALSE, ""))
            /\ Throw(ProcessExecutionError(nginx_t), "d_except")
            /\ fs' = fs
  /\ UNCHANGED <<daemon, op, raised, result, calls, nginx_user, i,
                 retry_count, verified, pre_strip, user_log, fs0, prev>>

\* lines 370-373 and 385-388: stop, wait, start, wait
cycle_cmds == <<systemctl("stop"), sleep, systemctl("start"), sleep>>
\* the daemon after the first k commands of a cycle succeeded
after_cycle(running, k) == IF k >= 3 THEN TRUE ELSE IF k >= 1 THEN FALSE ELSE running

\* lines 369-374: full restart
DeleteRestart ==
  /\ pc = "d_restart"
  /\ \E k \in Outcomes(fs, cycle_cmds) :
       /\ RunBlock(cycle_cmds, k, "d_probe", "d_except")
       /\ daemon' = after_cycle(daemon, k)
  /\ retry_count' = 0
  /\ UNCHANGED <<fs, op, raised, result, calls, nginx_user, i,
                 verified, pre_strip, user_log, fs0, prev>>

ProbeOutputs == {"200 OK", "301 Moved Permanently", "other", "fail"}
probe_cmd(d) == Cmd("curl -s -I --connect-timeout 5", <<"http", d>>)
\* line 382
still_reachable(out) == out \in {"200 OK", "301 Moved Permanently"}

\* lines 379-398: one iteration of the unreachability loop.  An exception
\* of the probe or of the cycle is caught at line 393 and ends the loop.
DeleteProbe ==
  /\ pc = "d_probe"
  /\ retry_count < max_retries
  /\ \E out \in ProbeOutputs :
       IF still_reachable(out)
         THEN \E k \in Outcomes(fs, cycle_cmds) :
                /\ log' = (log \o <<Ran(probe_cmd(domain), TRUE, out)>>) \o Trace(cycle_cmds, k)
                /\ daemon' = after_cycle(daemon, k)
                /\ retry_count' = IF k = Len(cycle_cmds) THEN retry_count + 1 ELSE retry_count
                /\ IF k < Len(cycle_cmds)
                     THEN pc' = "d_return" /\ UNCHANGED <<err, errAt>>
                   ELSE IF retry_count' = max_retries
                     THEN Throw(PythonError("Exception: site still reachable"), "d_except")
                   ELSE pc' = "d_probe" /\ UNCHANGED <<err, errAt>>
         ELSE /\ log' = Append(log, Ran(probe_cmd(domain), out # "fail", out))
              /\ pc' = "d_return"
              /\ UNCHANGED <<daemon, retry_count, err, errAt>>
  /\ UNCHANGED <<fs, op, raised, result, calls, nginx_user, i,
                 verified, pre_strip, user_log, fs0, prev>>

\* lines 400-403
DeleteReturn ==
  /\ pc = "d_return"
  /\ result' = "success"
  /\ pc' = "idle"
  /\ UNCHANGED <<fs, daemon, op, log, err, errAt, raised, calls, nginx_user, i,
                 retry_count, verified, pre_strip, user_log, fs0, prev>>

\* Mutant: a failed start attempt replaces the exception being handled.
propagated_start_error(caught, startOk) ==
  IF startOk THEN caught ELSE ProcessExecutionError(systemctl("start"))

\* What the handler of lines 405-412 propagates: the exception it caught,
\* whatever the start attempt did.
propagated(caught, startOk) == caught

\* lines 405-412: try to start the daemon, then re-raise
DeleteExcept ==
  /\ pc = "d_except"
  /\ \E startOk \in BOOLEAN :
       /\ log' = Append(log, Ran(systemctl("start"), startOk, ""))
       /\ daemon' = IF startOk THEN TRUE ELSE daemon
       /\ raised' = propagated(err, startOk)
  /\ result' = "raised"
  /\ pc' = "idle"
  /\ UNCHANGED <<fs, op, err, errAt, calls, nginx_user, i,
                 retry_count, verified, pre_strip, user_log, fs0, prev>>

(***************************************************************************)
(* reload (lines 414-424) and the end of a stand-alone restart_nginx       *)
(***************************************************************************)
\* Mutant: success is reported whatever the command did.
reload_result_always_success(ok) == "success"

\* lines 416-424: a result when `nginx -s reload` exits with 0, its exception
\* re-raised otherwise.
reload_result(ok) == IF ok THEN "success" ELSE "raised"

Reload ==
  /\ pc = "reload"
  /\ \E ok \in BOOLEAN :
       /\ log' = Append(log, Ran(nginx_reload, ok, ""))
       /\ result' = reload_result(ok)
       /\ err' = IF ok THEN err ELSE ProcessExecutionError(nginx_reload)
       /\ raised' = err'
       /\ errAt' = IF ok THEN errAt ELSE Len(log')
  /\ pc' = "idle"
  /\ UNCHANGED <<fs, daemon, op, calls, nginx_user, i,
                 retry_count, verified, pre_strip, user_log, fs0, prev>>

RestartReturn ==
  /\ pc \in {"r_return", "r_except"}
  /\ result' = IF pc = "r_return" THEN "success" ELSE "raised"
  /\ raised' = err
  /\ pc' = "idle"
  /\ UNCHANGED <<fs, daemon, op, log, err, errAt, calls, nginx_user, i,
                 retry_count, verified, pre_strip, user_log, fs0, prev>>

(***************************************************************************)
(* Calls                                                                   *)
(***************************************************************************)
OpNames == {"create_site", "delete_site", "reload", "restart_nginx"}
Entry(name) ==
  CASE name = "create_site" -> "i_user"
    [] name = "delete_site" -> "d_stop"
    [] name = "reload" -> "reload"
    [] OTHER -> "r_restart"

NoCall == [name |-> "none", site |-> [domain |-> "a.com", variant |-> "v1"], result |-> "none"]

\* The caller starts an operation. create_site takes a site; delete_site a
\* domain (the variant is then unused); the daemon operations take nothing.
Call ==
  /\ pc = "idle"
  /\ calls < MaxCalls
  /\ \E name \in OpNames, site \in NginxSite :
       /\ name # "create_site" => site.variant = "v1"
       /\ op' = [name |-> name, site |-> site]
       /\ pc' = Entry(name)
  /\ prev' = [name |-> op.name, site |-> op.site, result |-> result]
  /\ calls' = calls + 1
  /\ log' = <<>>
  /\ err' = NoError
  /\ errAt' = 0
  /\ raised' = NoError
  /\ result' = "none"
  /\ i' = 0
  /\ retry_count' = 0
  /\ verified' = <<>>
  /\ pre_strip' = Absent
  /\ user_log' = <<>>
  /\ fs0' = fs
  /\ nginx_user' = ""
  /\ UNCHANGED <<fs, daemon>>


(***************************************************************************)
(* Initial states: hosts the service can be started on.                    *)
(***************************************************************************)
\* A global config written by hand, with lines that mention the domains.
legacy_conf ==
  << <<"user", "root:root">>, <<"include", "a.com">>,
     <<"include", "/etc/nginx/sites-enabled/*">>, <<"include", "b.com">> >>

\* Entries of a site installed earlier, with logs and certificates.
installed(d, p) ==
  CASE p = get_nginx_config_path(d) ->
         File(generate_nginx_config([domain |-> d, variant |-> "v1"]))
    [] p = get_nginx_enabled_path(d) -> Link(get_nginx_config_path(d))
    [] p \in {get_site_root_path(d), <<"/etc/letsencrypt/live", d>>,
              <<"/etc/letsencrypt/archive", d>>} -> Dir(<<>>)
    [] OTHER -> File(<<>>)

\* provisioned: nginx was set up before; sites: the domains installed.
Host(provisioned, sites, redhat, literal) ==
  [p \in Paths |->
     IF p = redhat_release THEN (IF redhat THEN File(<<>>) ELSE Absent)
     ELSE IF p = literal_default_conf_path THEN (IF literal THEN File(<<>>) ELSE Absent)
     ELSE IF ~provisioned THEN Absent
     ELSE IF p \in Range(dirs) THEN Dir(<<>>)
     ELSE IF p = nginx_conf THEN File(legacy_conf)
     ELSE IF p = default_site THEN File(default_conf)
     ELSE IF p \in {cache_dirs[1], cache_dirs[3]} THEN Dir(<< <<"cached", "-">> >>)
     ELSE IF \E d \in sites : p \in Range(paths_to_delete(d)) THEN installed(p[2], p)
     ELSE Absent]

\* The hosts: a bare Red Hat host, or a provisioned Debian host with or
\* without a.com installed; each with or without a file of the literal name
\* in the working directory.
Init ==
  /\ \E provisioned \in BOOLEAN, literal \in BOOLEAN, sites \in SUBSET Domains :
       /\ ~provisioned => sites = {}
       /\ fs = Host(provisioned, sites, ~provisioned, literal)
       /\ daemon = provisioned
  /\ pc = "idle"
  /\ op = [name |-> "none", site |-> [domain |-> "a.com", variant |-> "v1"]]
  /\ log = <<>>
  /\ err = NoError
  /\ errAt = 0
  /\ raised = NoError
  /\ result = "none"
  /\ calls = 0
  /\ nginx_user = ""
  /\ i = 0
  /\ retry_count = 0
  /\ verified = <<>>
  /\ pre_strip = Absent
  /\ user_log = <<>>
  /\ fs0 = fs
  /\ prev = NoCall

Next ==
  \/ Call
  \/ InitUser \/ InitDirs \/ InitMain \/ InitDefault
  \/ CreateDirs \/ CreateWrite \/ CreateLink \/ CreateTest \/ RestartNginx
  \/ CreateSleep \/ CreateVerify \/ CreateReload \/ CreateReturn \/ CreateExcept
  \/ DeleteStop \/ DeletePath \/ DeleteCache \/ DeletePerms \/ DeleteStrip
  \/ DeleteTest \/ DeleteRestart \/ DeleteProbe \/ DeleteReturn \/ DeleteExcept
  \/ Reload \/ RestartReturn

Spec == Init /\ [][Next]_vars


(***************************************************************************)
(* Vocabulary of the properties                                            *)
(***************************************************************************)
\* The call of `name` has ended (returned or raised) and no other started.
Finished(name) == pc = "idle" /\ op.name = name /\ result # "none"
Returned(name) == Finished(name) /\ result = "success"
Raised(name) == Finished(name) /\ result = "raised"

\* Positions of the log holding the command c.
At(c) == {n \in 1..Len(log) : log[n].cmd = c.cmd /\ log[n].target = c.target}
Last == log[Len(log)]

RECURSIVE dir_cmds(_)
dir_cmds(n) ==
  IF n > Len(dirs) THEN <<>>
  ELSE <<Cmd("chown -R", dirs[n]), Cmd("chmod -R 755", dirs[n])>> \o dir_cmds(n + 1)
\* Every command of _init_nginx_config after the user resolution, in order.
init_cmds ==
  (dir_cmds(1) \o <<Cmd("chown", nginx_conf), Cmd("chmod 644", nginx_conf)>>)
    \o default_conf_cmds

\* The syntax check of create_site's step 7 (line 263) failed: the first
\* `nginx -t` of the call failed (the one of restart_nginx comes second).
CreateSyntaxCheckFailed ==
  /\ At(nginx_t) # {}
  /\ \A n \in At(nginx_t) : ~log[n].ok

\* The previous call installed the domain of the current one.
InstalledBefore ==
  /\ prev.name = "create_site"
  /\ prev.result = "success"
  /\ prev.site.domain = domain

(***************************************************************************)
(* C1. If the syntax check run by createSite after linking the site fails, *)
(* then when createSite raises there is no file at the domain's available  *)
(* path and no directory entry at its enabled path.                        *)
(* The code removes the config first and then tests the link with          *)
(* os.path.exists, which is false for the now dangling link: the link      *)
(* stays.                                                                  *)
(***************************************************************************)
C1_RollbackRemovesBoth ==
  (Raised("create_site") /\ CreateSyntaxCheckFailed)
    => /\ fs[config_path].kind = "absent"
       /\ fs[enabled_path].kind = "absent"

(***************************************************************************)
(* C2. After deleteSite returns success for a domain that createSite had   *)
(* installed, no entry is left at any of the eight paths, the available    *)
(* config and the enabled path included.                                   *)
(* The available config is deleted first; the enabled link then dangles,   *)
(* os.path.exists is false for it and it is skipped.                       *)
(***************************************************************************)
C2_DeleteRemovesAllPaths ==
  (Returned("delete_site") /\ InstalledBefore)
    => \A p \in Range(paths_to_delete(domain)) : fs[p].kind = "absent"

(***************************************************************************)
(* C3. If the global config exists when deleteSite starts and the syntax   *)
(* check after the strip fails, then when deleteSite raises the content of *)
(* the global config is the content it had just before the strip.          *)
(***************************************************************************)
DeleteSyntaxCheckFailed == \E n \in At(nginx_t) : ~log[n].ok
RestoreSucceeded == \E n \in At(mv_cmd) : log[n].ok
RestoreFailed == \E n \in At(mv_cmd) : ~log[n].ok

\* C3 as stated: the global config existed and the syntax check failed =>
\* when deleteSite raises the global config has its content of before the
\* strip.  Violated when the `mv` that puts the backup back fails.
C3_RestoredWhenCheckFails ==
  (Raised("delete_site") /\ os_path_exists(fs0, nginx_conf) /\ DeleteSyntaxCheckFailed)
    => fs[nginx_conf] = pre_strip

\* C3 as amended: in that case the `mv` of the backup is always attempted;
\* when it succeeds the content is the one of before the strip, and when it
\* fails the stripped content stays and the error of the `mv` is raised.
C3_RestoredWhenMvSucceeds ==
  (Raised("delete_site") /\ os_path_exists(fs0, nginx_conf) /\ DeleteSyntaxCheckFailed)
    => /\ pre_strip = fs0[nginx_conf]
       /\ At(mv_cmd) # {}
       /\ RestoreSucceeded =>
            /\ fs[nginx_conf] = pre_strip
            /\ raised = ProcessExecutionError(nginx_t)
       /\ RestoreFailed =>
            /\ fs[nginx_conf] = File(sed_delete(pre_strip.content, domain))
            /\ raised = ProcessExecutionError(mv_cmd)

\* the strip removed lines, the check failed, the backup was put back
C3_Witness ==
  /\ Raised("delete_site")
  /\ DeleteSyntaxCheckFailed
  /\ RestoreSucceeded
  /\ sed_delete(pre_strip.content, domain) # pre_strip.content
  /\ fs[nginx_conf] = pre_strip

(***************************************************************************)
(* C4. Whenever deleteSite raises, `systemctl start nginx` was attempted    *)
(* after the failing step and before the error propagated, and a failure   *)
(* of that attempt neither replaces nor suppresses the original error.     *)
(***************************************************************************)
C4_StartAttemptedBeforeRaise ==
  Raised("delete_site")
    => /\ Len(log) = errAt + 1
       /\ Last.cmd = "systemctl" /\ Last.target = <<"nginx", "start">>
       /\ err # NoError
       /\ raised = err

\* a step failed, and so did the start attempt of the handler
C4_Witness ==
  /\ Raised("delete_site")
  /\ errAt > 1
  /\ ~Last.ok
  /\ raised = ProcessExecutionError(nginx_t)

(***************************************************************************)
(* C5. In createSite verification runs at most twice: a first verification *)
(* that returns true means no reload and success; one that returns false   *)
(* means exactly one `nginx -s reload` followed by exactly one more         *)
(* verification, and createSite raises if that one is false too.           *)
(***************************************************************************)
Reloads == Cardinality(At(nginx_reload))
HeadProbes == Cardinality(At(head_cmd(domain)))
\* the reload and the wait after it both succeeded
ReloadCompleted ==
  \E n \in At(nginx_reload) :
    /\ log[n].ok
    /\ n < Len(log) /\ log[n + 1].cmd = "sleep" /\ log[n + 1].ok

\* C5 as stated: at most two verifications; first true => no reload and
\* success; first false => one reload, one more verification, and a raise
\* if that is false.  Violated when the reload (or the wait) fails, for
\* then no second verification runs.
C5_VerifyAtMostTwice ==
  (Finished("create_site") /\ Len(verified) >= 1)
    => /\ Len(verified) <= 2
       /\ HeadProbes = Len(verified)
       /\ verified[1] => (Reloads = 0 /\ result = "success")
       /\ ~verified[1] =>
            /\ Reloads = 1
            /\ Len(verified) = 2
            /\ ~verified[2] => result = "raised"

\* C5 as amended: after a false first verification exactly one reload is
\* issued; the second verification runs iff the reload and the wait
\* succeeded, and createSite raises without it otherwise.
C5_VerifyAtMostTwiceIfReloadRuns ==
  (Finished("create_site") /\ Len(verified) >= 1)
    => /\ Len(verified) <= 2
       /\ HeadProbes = Len(verified)
       /\ verified[1] => (Reloads = 0 /\ Len(verified) = 1 /\ result = "success")
       /\ ~verified[1] =>
            /\ Reloads = 1
            /\ ReloadCompleted =>
                 /\ Len(verified) = 2
                 /\ result = (IF verified[2] THEN "success" ELSE "raised")
            /\ ~ReloadCompleted =>
                 /\ Len(verified) = 1
                 /\ result = "raised"
                 /\ raised.kind = "ProcessExecutionError"

\* first verification false, reload, second verification false, raise
C5_Witness ==
  /\ Raised("create_site")
  /\ Len(verified) = 2
  /\ ~verified[1] /\ ~verified[2]
  /\ Reloads = 1

(***************************************************************************)
(* C6. createSite returns success only if base-config initialisation       *)
(* completed without error, the syntax check passed, the restart succeeded *)
(* and a verification returned true (header 200 and marker in the body);   *)
(* in every other execution it raises.                                     *)
(***************************************************************************)
InitCompleted ==
  /\ Len(log) >= Len(init_cmds)
  /\ \A n \in 1..Len(init_cmds) : log[n] = Ran(init_cmds[n], TRUE, "")
ProbeSawSite ==
  \E n \in At(head_cmd(domain)) :
    /\ log[n].ok /\ log[n].out = "200 OK"
    /\ n < Len(log) /\ log[n + 1] = Ran(body_cmd(domain), TRUE, "marker")
AllFatalStepsPassed ==
  /\ InitCompleted
  /\ Cardinality(At(nginx_t)) = 2 /\ \A n \in At(nginx_t) : log[n].ok
  /\ \E n \in At(systemctl("restart")) : log[n].ok
  /\ \A n \in 1..Len(log) : log[n].cmd \notin {"curl -s -I", "curl -s"} => log[n].ok

\* C6: success only after initialisation, both syntax checks, the restart
\* and a verification that saw 200 and the marker; otherwise a raise.
C6_SuccessOnlyIfAllPassed ==
  Finished("create_site")
    => /\ result = "success" => (AllFatalStepsPassed /\ ProbeSawSite /\ raised = NoError)
       /\ result # "success" => (result = "raised" /\ raised # NoError)

\* success on the second verification
C6_Witness ==
  /\ Returned("create_site")
  /\ Len(verified) = 2
  /\ ProbeSawSite

(***************************************************************************)
(* C7. createSite called twice in sequence for the same domain, both calls *)
(* succeeding, leaves the file-system state of one call: one available     *)
(* config and one enabled symlink to it; the second call never fails       *)
(* because the symlink already exists.                                     *)
(***************************************************************************)
SiteEntries(f, d) == [n \in 1..Len(paths_to_delete(d)) |-> f[paths_to_delete(d)[n]]]

\* C7: in a createSite that follows a successful createSite of the domain,
\* the relink never raises, and on success the domain has its one config
\* and one link to it, all its entries as after the first call when the
\* site is the same.
C7_CreateTwiceIsIdempotent ==
  (op.name = "create_site" /\ InstalledBefore)
    => /\ err.kind \notin {"FileExistsError", "IsADirectoryError"}
       /\ Returned("create_site") =>
            /\ fs[enabled_path] = Link(config_path)
            /\ fs[config_path].kind = "file"
            /\ prev.site = op.site => SiteEntries(fs, domain) = SiteEntries(fs0, domain)

\* a second successful call with the same site
C7_Witness ==
  /\ Returned("create_site")
  /\ InstalledBefore
  /\ prev.site = op.site

(***************************************************************************)
(* C8. Whenever createSite returns success, the entry at the enabled path  *)
(* is a symlink to the available path and the file at the available path   *)
(* holds exactly the text rendered for the site of this call.              *)
(***************************************************************************)
C8_EnabledResolvesToRendered ==
  Returned("create_site")
    => /\ fs[enabled_path].kind = "link"
       /\ fs[enabled_path].target = config_path
       /\ fs[config_path] = File(generate_nginx_config(op.site))

\* the call replaced a config rendered for another variant of the site
C8_Witness ==
  /\ Returned("create_site")
  /\ fs0[config_path].kind = "file"
  /\ fs0[config_path] # fs[config_path]

(***************************************************************************)
(* C9. deleteSite for a domain none of whose paths exist never raises      *)
(* because of a missing path: every deletion is skipped, and the operation *)
(* goes on to the cache purge, the syntax check and the restart.           *)
(***************************************************************************)
NothingToDelete == \A p \in Range(paths_to_delete(domain)) : fs0[p].kind = "absent"
\* An exception raised right after the initial stop succeeded, before any
\* other command ran: one raised by the deletion loop.
RaisedByDeletionLoop == err # NoError /\ errAt = 1 /\ log[1].ok

\* C9: with none of the eight paths present, the deletion loop raises
\* nothing, runs no command and changes nothing.
C9_MissingPathsAreSkipped ==
  (op.name = "delete_site" /\ NothingToDelete)
    => /\ err.kind \in {"none", "ProcessExecutionError", "Exception: site still reachable"}
       /\ ~RaisedByDeletionLoop
       /\ \A n \in 1..Len(log) : log[n].cmd # "rm -rf"
       /\ \A p \in Range(paths_to_delete(domain)) : fs[p] = fs0[p]

\* nothing to delete, and the call reached the unreachability loop
C9_Witness ==
  /\ op.name = "delete_site"
  /\ NothingToDelete
  /\ pc = "d_probe"
  /\ \E n \in At(nginx_t) : log[n].ok

(***************************************************************************)
(* C10. The unreachability confirmation of deleteSite ends after at most 3 *)
(* probes: each probe answering 200 or 301 is followed by one stop+start   *)
(* cycle, the loop ends at the first probe that answers neither, and       *)
(* deleteSite raises if all 3 probes answer 200 or 301.                    *)
(* A command of the cycle that fails is caught at line 393 and ends the    *)
(* loop as if the domain were unreachable.                                 *)
(***************************************************************************)
Probes == At(probe_cmd(domain))
Answered(n) == log[n].ok /\ still_reachable(log[n].out)
CycleAfter(n) ==
  /\ n + 4 <= Len(log)
  /\ \A k \in 1..4 : log[n + k] = Ran(cycle_cmds[k], TRUE, "")

\* C10 as stated: at most 3 probes, a full cycle after each probe that
\* answered, the loop ended by the first probe that did not, a raise after
\* 3 probes that answered.
C10_ProbeLoop ==
  Finished("delete_site")
    => /\ Cardinality(Probes) <= max_retries
       /\ \A n \in Probes : Answered(n) => CycleAfter(n)
       /\ \A n \in Probes : ~Answered(n) => \A m \in Probes : m <= n
       /\ (Cardinality(Probes) = max_retries /\ \A n \in Probes : Answered(n))
            => result = "raised"
       /\ (result = "success") => \E n \in Probes : ~Answered(n)

(***************************************************************************)
(* C11. deleteSite returns success only if the syntax check after the      *)
(* strip passed and the last probe of the call answered neither 200 nor    *)
(* 301; a failure of any other command of the confirmation loop is never   *)
(* reported as success.                                                    *)
(* The handler of line 393 catches the failure of a stop, sleep or start   *)
(* of the loop and breaks: the call returns success after a probe that     *)
(* answered.                                                               *)
(***************************************************************************)
LastProbe == CHOOSE n \in Probes : \A m \in Probes : m <= n
FirstProbe == CHOOSE n \in Probes : \A m \in Probes : n <= m
PostStripCheckPassed == \E n \in At(nginx_t) : log[n].ok

\* C11 as stated: success => the check passed, the last probe did not
\* answer 200 or 301, and every command of the loop but the probes succeeded.
C11_SuccessOnlyIfUnreachable ==
  Returned("delete_site")
    => /\ PostStripCheckPassed
       /\ Probes # {}
       /\ ~Answered(LastProbe)
       /\ \A n \in FirstProbe..Len(log) : n \notin Probes => log[n].ok

(***************************************************************************)
(* C12. The resolution of the service user never raises to its caller: for *)
(* every combination of success and failure of the process list, `id` and  *)
(* `useradd`, it returns a "user:group" string, and it returns             *)
(* "nobody:nobody" whenever one of them fails without a fallback handling  *)
(* it (a failed `useradd` included).                                       *)
(***************************************************************************)
UserStrings == {"root:root", "nginx:nginx", "www-data:www-data", "nobody:nobody"}
\* _ensure_nginx_user has just returned to _init_nginx_config.
UserResolved == pc = "i_dirs" /\ i = 1
UseraddFailed == \E n \in 1..Len(user_log) : user_log[n].cmd = "useradd -r -s" /\ ~user_log[n].ok
\* A failure with no fallback: the process list, the `id` of the OS
\* family's user (run when no nginx process is listed), or `useradd`.  The
\* failure of `id {user}` at line 73 has one: `useradd`.
UnhandledUserFailure ==
  \/ ~user_log[1].ok
  \/ Len(user_log) >= 2 /\ user_log[1].out = "" /\ ~user_log[2].ok
  \/ UseraddFailed

\* C12: the user resolution hands a "user:group" string to its caller and
\* no exception; the string is "nobody:nobody" after a failure that has no
\* fallback; an exception of create_site comes from a later command.
C12_UserResolutionNeverRaises ==
  /\ UserResolved =>
       /\ nginx_user \in UserStrings
       /\ err = NoError
       /\ user_log # <<>>
       /\ UnhandledUserFailure => nginx_user = "nobody:nobody"
  /\ (op.name = "create_site" /\ err # NoError) => errAt >= 1

\* `id root` failed and so did `useradd root`
C12_Witness ==
  /\ UserResolved
  /\ UseraddFailed
  /\ user_log[1].out = "root"
  /\ nginx_user = "nobody:nobody"

(***************************************************************************)
(* C13. reload returns success when the daemon runs with a valid config on *)
(* disk, and raises, the daemon not reloaded, when the config on disk is   *)
(* invalid: success is never reported for an invalid config.               *)
(* `nginx -s reload` parses the config before it signals the daemon and    *)
(* exits non-zero, nothing signalled, when the config is invalid or no     *)
(* daemon runs: the exit status of the one command is what reload sees of  *)
(* both.                                                                   *)
(***************************************************************************)
ReloadCommand == Len(log) = 1 /\ log[1].cmd = "nginx -s reload"

NoRestartOrReload == At(systemctl("restart")) = {} /\ At(nginx_reload) = {}

\* C14 as stated: a createSite that raises after its syntax check failed
\* leaves the global config as it was before the call and has issued no
\* restart and no reload.
C14_GlobalConfigUntouched ==
  (Raised("create_site") /\ CreateSyntaxCheckFailed)
    => /\ fs[nginx_conf] = fs0[nginx_conf]
       /\ NoRestartOrReload

(***************************************************************************)
(* C15. In createSite and restart_nginx a `systemctl restart nginx` is     *)
(* issued only immediately after an `nginx -t` that passed; after a failed *)
(* `nginx -t` in createSite no restart, reload or reachability probe is    *)
(* issued for the rest of the call.                                        *)
(***************************************************************************)
Restarts == At(systemctl("restart"))
DaemonOrProbe == {"systemctl", "nginx -s reload", "curl -s -I", "curl -s"}

\* C15: at every point of a createSite or restart_nginx, each restart in
\* the log directly follows a passed `nginx -t`, and in createSite nothing
\* that restarts, reloads or probes follows a failed `nginx -t`.
C15_RestartOnlyAfterPassedCheck ==
  (op.name \in {"create_site", "restart_nginx"})
    => /\ \A n \in Restarts : n > 1 /\ log[n - 1] = Ran(nginx_t, TRUE, "")
       /\ op.name = "create_site" =>
            \A n \in At(nginx_t) : ~log[n].ok =>
              \A m \in (n + 1)..Len(log) : log[m].cmd \notin DaemonOrProbe

\* the check of line 263 passed, the one of restart_nginx failed: the call
\* raised without a restart
C15_Witness ==
  /\ Raised("create_site")
  /\ Cardinality(At(nginx_t)) = 2
  /\ \E n \in At(nginx_t) : log[n].ok
  /\ \E n \in At(nginx_t) : ~log[n].ok
  /\ Restarts = {}

(***************************************************************************)
(* C16. If the syntax check of deleteSite fails, deleteSite aborts without *)
(* issuing a command that starts or restarts the daemon while the config   *)
(* on disk is still the one that failed the check.                         *)
(* The raise of line 367 lands in the handler of lines 405-412, which runs *)
(* `systemctl start nginx`; the config on disk is then the one that failed *)
(* when no backup had been taken or the `mv` of line 366 failed.           *)
(***************************************************************************)
StartsDaemon(n) ==
  log[n].cmd = "systemctl" /\ log[n].target[2] \in {"start", "restart"}

\* C16 as stated: a start or restart that follows a failed `nginx -t` in a
\* deleteSite comes after a successful `mv` of the backup, the only step
\* that changes the config after the check.
C16_NoStartWithBrokenConfig ==
  (op.name = "delete_site")
    => \A n \in At(nginx_t) : ~log[n].ok =>
         \A m \in (n + 1)..Len(log) : StartsDaemon(m) =>
           \E r \in (n + 1)..(m - 1) : log[r] = Ran(mv_cmd, TRUE, "")

(***************************************************************************)
(* C17. In deleteSite no file, directory, cache content or config line is  *)
(* removed or modified before a `systemctl stop nginx` has completed       *)
(* successfully in that call; if the initial stop fails, the file system   *)
(* is left exactly as it was.                                              *)
(***************************************************************************)
InitialStop == Len(log) >= 1 /\ log[1].cmd = "systemctl" /\ log[1].target = <<"nginx", "stop">>

\* C17: at every point of a deleteSite, the file system differs from the
\* one the call started with only if the first command of the call was a
\* `systemctl stop nginx` that succeeded; after a failed initial stop it is
\* the one the call started with.
C17_NothingTouchedBeforeStop ==
  (op.name = "delete_site")
    => /\ fs # fs0 => (InitialStop /\ log[1].ok)
       /\ (InitialStop /\ ~log[1].ok) => (fs = fs0 /\ pc \in {"d_except", "idle"})

\* the initial stop failed for an installed site: the call raised and every
\* entry of the site is in place
C17_Witness ==
  /\ Raised("delete_site")
  /\ InitialStop /\ ~log[1].ok
  /\ fs0[config_path].kind = "file"
  /\ fs = fs0

(***************************************************************************)
(* C18. If createSite raises because the reachability verification failed  *)
(* on both attempts, the available config and the enabled symlink written  *)
(* in that call are still present afterwards: nothing is rolled back on    *)
(* this path.                                                              *)
(***************************************************************************)
VerificationExhausted ==
  /\ Len(verified) = 2 /\ ~verified[1] /\ ~verified[2]
  /\ raised = PythonError("Exception: site not reachable")

\* C18: a createSite that raises after two failed verifications leaves the
\* config rendered in this call at the available path and the symlink to
\* it at the enabled path, and the site root in place.
C18_NoRollbackAfterVerification ==
  (Raised("create_site") /\ VerificationExhausted)
    => /\ fs[config_path] = File(generate_nginx_config(op.site))
       /\ fs[enabled_path] = Link(config_path)
       /\ fs[site_root].kind = "dir"

\* a site not installed before the call is left installed by the failed call
C18_Witness ==
  /\ Raised("create_site")
  /\ VerificationExhausted
  /\ fs0[config_path].kind = "absent"
  /\ fs[config_path].kind = "file"
  /\ daemon

(***************************************************************************)
(* C19. Every `chown` or `chmod` issued by _init_nginx_config names one of *)
(* the paths _init_nginx_config itself creates or writes (the five base    *)
(* directories, /etc/nginx/nginx.conf, /etc/nginx/conf.d/default.conf);    *)
(* so when every command on an existing path succeeds, it completes        *)
(* without raising and createSite gets past its step 1.                    *)
(* The string of line 182 lacks the f prefix: the command is               *)
(* `chmod 644 {default_conf_path}`, on a file of that literal name in the  *)
(* working directory.                                                      *)
(***************************************************************************)
InitPaths == Range(dirs) \cup {nginx_conf, default_conf_path}
\* The positions of the log that hold commands of _init_nginx_config.
InitLog == 1..(IF Len(log) < Len(init_cmds) THEN Len(log) ELSE Len(init_cmds))

\* C19 as stated: in a createSite every command of _init_nginx_config has
\* one of the paths it creates or writes as its target, and one that failed
\* had a target that exists (so none fails when the commands on existing
\* paths succeed).
C19_InitCommandsNameInitPaths ==
  (op.name = "create_site")
    => \A n \in InitLog :
         /\ log[n].target \in InitPaths
         /\ ~log[n].ok => os_path_exists(fs, log[n].target)

(***************************************************************************)
(* C20. Whenever deleteSite returns success, the most recent               *)
(* service-manager command that completed in that call was a successful    *)
(* `systemctl start nginx`: the daemon is never left stopped on the        *)
(* success path, also when a stop or start inside the confirmation loop    *)
(* fails.                                                                  *)
(* A stop of the loop that succeeds followed by a sleep or a start that    *)
(* fails is caught at line 393: the call returns success with the daemon   *)
(* stopped.                                                                *)
(***************************************************************************)
Completed == {n \in 1..Len(log) : log[n].cmd = "systemctl" /\ log[n].ok}
LastCompleted == CHOOSE n \in Completed : \A m \in Completed : m <= n

\* C20 as stated: success => the last service-manager command that
\* succeeded in the call is a start, and the daemon runs.
C20_DaemonStartedOnSuccess ==
  Returned("delete_site")
    => /\ Completed # {}
       /\ log[LastCompleted].target = <<"nginx", "start">>
       /\ daemon

====
